---- MODULE Spec2Model ----
(***************************************************************************)
(* book-manager: the books table (internal/database/migration.sql), the    *)
(* data access layer (internal/repository/book_repository.go) and the      *)
(* business rules (internal/usecase/book_usecase.go) as a state machine.   *)
(*                                                                         *)
(* A nullable column or a Go pointer field is an option: <<>> is NULL/nil, *)
(* <<v>> is the value v.  Instants are natural numbers (clock ticks);      *)
(* ZeroTime is Go's zero time.Time.                                        *)
(***************************************************************************)
EXTENDS Integers, Sequences, FiniteSets, TLC

\* ------------------------------------------------------------------ bounds
\* number of rows ever inserted (the AUTOINCREMENT sequence is capped here)
MaxBooks == 2
\* last tick of the wall clock
MaxNow == 3
\* last second of the wall clock where it moves by whole seconds
MaxSeconds == 2

\* number of requests handled at the same time
MaxTasks == 2

\* --------------------------------------------------------------- constants
\* clock ticks per second: CURRENT_TIMESTAMP has one-second resolution,
\* time.Now() is finer
TicksPerSec == 2
\* Go's zero time.Time (a purchase_date missing from the JSON body)
ZeroTime == 0
MinRating == 1
MaxRating == 5

\* the page size ListBooks falls back to, and the largest it accepts
DefaultLimit == 20
MaxLimit == 100
\* clock ticks per month: a month of two seconds
TicksPerMonth == 2 * TicksPerSec

\* net/http status codes the handlers answer with
StatusOK == 200
StatusCreated == 201
StatusBadRequest == 400
StatusNotFound == 404
StatusInternalServerError == 500

None == <<>>
Some(v) == <<v>>

StatusNotStarted == "not_started"
StatusReading == "reading"
StatusCompleted == "completed"
StatusDropped == "dropped"
Statuses == {StatusNotStarted, StatusReading, StatusCompleted, StatusDropped}

\* error kinds, one per place the code returns an error
NoError == "ok"
InvalidArgument == "InvalidArgument"
NotFound == "NotFound"
ValidationError == "ValidationError"
BusinessRuleError == "BusinessRuleError"
StoreError == "StoreError"

VARIABLES
    books,   \* the rows of table books: id -> row
    seq,     \* sqlite_sequence for books: the largest id ever assigned
    now,     \* the wall clock
    call,    \* the last use-case call: operation, arguments, time, outcome
    pre,     \* the rows before the last use-case call
    repeat,  \* the last call repeated the call before it, which had succeeded
    tasks    \* the requests being handled concurrently, each at its own step

vars == <<books, seq, now, call, pre, repeat, tasks>>

\* ------------------------------------------------------------ the database
\* CURRENT_TIMESTAMP: the current time truncated to the second
CurrentTimestamp(t) == t - (t % TicksPerSec)

\* ChecksPass without the CHECK on status
ChecksPass_RatingOnly(row) ==
    row.Rating = None \/ (row.Rating[1] >= MinRating /\ row.Rating[1] <= MaxRating)

\* CHECK (status IN (...)) and CHECK (rating >= 1 AND rating <= 5); a NULL
\* rating passes its CHECK
ChecksPass(row) ==
    /\ row.Status \in Statuses
    /\ row.Rating = None \/ (row.Rating[1] >= MinRating /\ row.Rating[1] <= MaxRating)

\* InsertRow with the last two values of the VALUES list in the wrong order
InsertRow_TagsNotesSwapped(id, req, t) ==
    [ ID            |-> id,
      Title         |-> req.Title,
      Author        |-> req.Author,
      ISBN          |-> req.ISBN,
      Publisher     |-> req.Publisher,
      PublishedDate |-> req.PublishedDate,
      PurchaseDate  |-> req.PurchaseDate,
      PurchasePrice |-> req.PurchasePrice,
      Status        |-> "not_started",
      StartReadDate |-> None,
      EndReadDate   |-> None,
      Rating        |-> None,
      Notes         |-> req.Tags,
      Tags          |-> req.Notes,
      CreatedAt     |-> CurrentTimestamp(t),
      UpdatedAt     |-> CurrentTimestamp(t) ]

\* INSERT INTO books (...) VALUES (...): the other columns take their defaults
InsertRow(id, req, t) ==
    [ ID            |-> id,
      Title         |-> req.Title,
      Author        |-> req.Author,
      ISBN          |-> req.ISBN,
      Publisher     |-> req.Publisher,
      PublishedDate |-> req.PublishedDate,
      PurchaseDate  |-> req.PurchaseDate,
      PurchasePrice |-> req.PurchasePrice,
      Status        |-> StatusNotStarted,
      StartReadDate |-> None,
      EndReadDate   |-> None,
      Rating        |-> None,
      Notes         |-> req.Notes,
      Tags          |-> req.Tags,
      CreatedAt     |-> CurrentTimestamp(t),
      UpdatedAt     |-> CurrentTimestamp(t) ]

\* the fields of an UpdateBookRequest
UpdateFields ==
    {"Title", "Author", "ISBN", "Publisher", "PublishedDate", "PurchasePrice",
     "Status", "StartReadDate", "EndReadDate", "Rating", "Notes", "Tags"}

\* the request with every field nil
EmptyUpdate == [f \in UpdateFields |-> None]

\* bookRepository.Update, the SET list: the columns the statement assigns
SetParts(req) ==
    {f \in UpdateFields : req[f] # None}
        \cup (IF req.Status = Some(StatusReading) /\ req.StartReadDate = None
              THEN {"StartReadDate"} ELSE {})
        \cup (IF req.Status \in {Some(StatusCompleted), Some(StatusDropped)}
                 /\ req.EndReadDate = None
              THEN {"EndReadDate"} ELSE {})

\* StampStart with the stamp appended after the explicit date, so that it wins
StampStart_StampWins(req, old, t) ==
    IF req.Status = Some("reading") THEN Some(t)
    ELSE IF req.StartReadDate # None THEN req.StartReadDate
    ELSE old

\* the stamp of start_read_date = now when status = reading comes without a date
StampStart(req, old, t) ==
    IF req.StartReadDate # None THEN req.StartReadDate
    ELSE IF req.Status = Some(StatusReading) THEN Some(t)
    ELSE old

\* StampEnd stamping on every status change
StampEnd_AnyStatus(req, old, t) ==
    IF req.EndReadDate # None THEN req.EndReadDate
    ELSE IF req.Status # None THEN Some(t)
    ELSE old

\* the stamp of end_read_date = now when status = completed or dropped comes
\* without a date
StampEnd(req, old, t) ==
    IF req.EndReadDate # None THEN req.EndReadDate
    ELSE IF req.Status \in {Some(StatusCompleted), Some(StatusDropped)} THEN Some(t)
    ELSE old

\* AssignedRow assigning the rating column even when the request carries none
AssignedRow_RatingAlways(row, req, t) ==
    [ row EXCEPT
        !.Title         = IF req.Title # None THEN req.Title[1] ELSE @,
        !.Author        = IF req.Author # None THEN req.Author[1] ELSE @,
        !.ISBN          = IF req.ISBN # None THEN req.ISBN[1] ELSE @,
        !.Publisher     = IF req.Publisher # None THEN req.Publisher[1] ELSE @,
        !.PublishedDate = IF req.PublishedDate # None THEN req.PublishedDate ELSE @,
        !.PurchasePrice = IF req.PurchasePrice # None THEN req.PurchasePrice[1] ELSE @,
        !.Status        = IF req.Status # None THEN req.Status[1] ELSE @,
        !.StartReadDate = StampStart(req, @, t),
        !.EndReadDate   = StampEnd(req, @, t),
        !.Rating        = req.Rating,
        !.Notes         = IF req.Notes # None THEN req.Notes[1] ELSE @,
        !.Tags          = IF req.Tags # None THEN req.Tags[1] ELSE @ ]

\* UPDATE books SET ... WHERE id = ?: the row after the assignments, before
\* the CHECK constraints are evaluated
AssignedRow(row, req, t) ==
    [ row EXCEPT
        !.Title         = IF req.Title # None THEN req.Title[1] ELSE @,
        !.Author        = IF req.Author # None THEN req.Author[1] ELSE @,
        !.ISBN          = IF req.ISBN # None THEN req.ISBN[1] ELSE @,
        !.Publisher     = IF req.Publisher # None THEN req.Publisher[1] ELSE @,
        !.PublishedDate = IF req.PublishedDate # None THEN req.PublishedDate ELSE @,
        !.PurchasePrice = IF req.PurchasePrice # None THEN req.PurchasePrice[1] ELSE @,
        !.Status        = IF req.Status # None THEN req.Status[1] ELSE @,
        !.StartReadDate = StampStart(req, @, t),
        !.EndReadDate   = StampEnd(req, @, t),
        !.Rating        = IF req.Rating # None THEN req.Rating ELSE @,
        !.Notes         = IF req.Notes # None THEN req.Notes[1] ELSE @,
        !.Tags          = IF req.Tags # None THEN req.Tags[1] ELSE @ ]

\* UpdatedAtTrigger missing from the schema
UpdatedAtTrigger_Absent(row, t) == row

\* trigger update_books_updated_at: AFTER UPDATE, updated_at = CURRENT_TIMESTAMP
UpdatedAtTrigger(row, t) == [row EXCEPT !.UpdatedAt = CurrentTimestamp(t)]

\* RepoUpdate clearing the read dates and the rating of a book that is set
\* back to not_started
RepoUpdate_ClearsOnReset(rows, id, req, t) ==
    IF SetParts(req) = {} THEN
        <<IF id \in DOMAIN rows THEN NoError ELSE NotFound, rows>>
    ELSE IF id \notin DOMAIN rows THEN
        <<NotFound, rows>>
    ELSE IF ~ChecksPass(AssignedRow(rows[id], req, t)) THEN
        <<StoreError, rows>>
    ELSE IF req.Status = Some("not_started") THEN
        <<NoError, [rows EXCEPT ![id] =
                       [UpdatedAtTrigger(AssignedRow(rows[id], req, t), t)
                            EXCEPT !.StartReadDate = None, !.EndReadDate = None,
                                   !.Rating = None]]>>
    ELSE
        <<NoError, [rows EXCEPT ![id] = UpdatedAtTrigger(AssignedRow(rows[id], req, t), t)]>>

\* bookRepository.Update: <<error, rows afterwards>>
RepoUpdate(rows, id, req, t) ==
    IF SetParts(req) = {} THEN
        <<IF id \in DOMAIN rows THEN NoError ELSE NotFound, rows>>
    ELSE IF id \notin DOMAIN rows THEN
        <<NotFound, rows>>
    ELSE IF ~ChecksPass(AssignedRow(rows[id], req, t)) THEN
        <<StoreError, rows>>
    ELSE
        <<NoError, [rows EXCEPT ![id] = UpdatedAtTrigger(AssignedRow(rows[id], req, t), t)]>>

\* RepoDelete without the WHERE clause
RepoDelete_AllRows(rows, id) ==
    IF id \notin DOMAIN rows THEN <<NotFound, rows>>
    ELSE <<NoError, << >> >>

\* bookRepository.Delete: <<error, rows afterwards>>
RepoDelete(rows, id) ==
    IF id \notin DOMAIN rows THEN <<NotFound, rows>>
    ELSE <<NoError, [i \in DOMAIN rows \ {id} |-> rows[i]]>>

\* the fields of a BookFilter
FilterFields == {"Status", "Author", "Publisher", "Tag", "Rating", "Search"}

\* &model.BookFilter{}: the filter with every field nil
EmptyFilter == [f \in FilterFields |-> None]

UpperCase == "ABCDEFGHIJKLMNOPQRSTUVWXYZ"
LowerCase == "abcdefghijklmnopqrstuvwxyz"

\* SQLite's LIKE compares ASCII letters without regard to case
Fold(c) ==
    IF \E i \in 1 .. Len(UpperCase) : SubSeq(UpperCase, i, i) = c
    THEN LET i == CHOOSE i \in 1 .. Len(UpperCase) : SubSeq(UpperCase, i, i) = c
         IN  SubSeq(LowerCase, i, i)
    ELSE c

\* text LIKE pattern: % stands for any run of characters, _ for any one
RECURSIVE Like(_, _)
Like(pattern, text) ==
    IF pattern = "" THEN text = ""
    ELSE LET p == SubSeq(pattern, 1, 1)
             rest == SubSeq(pattern, 2, Len(pattern))
         IN  IF p = "%"
             THEN \E k \in 0 .. Len(text) : Like(rest, SubSeq(text, k + 1, Len(text)))
             ELSE /\ text # ""
                  /\ p = "_" \/ Fold(p) = Fold(SubSeq(text, 1, 1))
                  /\ Like(rest, SubSeq(text, 2, Len(text)))

\* one condition of the WHERE clause on one row; a NULL rating equals nothing
Holds(cond, row, f) ==
    CASE cond = "Status"    -> row.Status = f.Status[1]
      [] cond = "Author"    -> row.Author = f.Author[1]
      [] cond = "Publisher" -> row.Publisher = f.Publisher[1]
      [] cond = "Rating"    -> row.Rating # None /\ row.Rating[1] = f.Rating[1]
      [] cond = "Tag"       -> Like("%" \o f.Tag[1] \o "%", row.Tags)
      [] cond = "Search"    -> \/ Like("%" \o f.Search[1] \o "%", row.Title)
                               \/ Like("%" \o f.Search[1] \o "%", row.Author)

\* the ids of the rows that satisfy every condition (joined with AND)
Selected(rows, conds, filter) ==
    {id \in DOMAIN rows : \A c \in conds : Holds(c, rows[id], filter[1])}

\* bookRepository.List, the conditions it builds from the filter
ListConditions(filter) ==
    IF filter = None THEN {} ELSE {f \in FilterFields : filter[1][f] # None}

\* CountConditions without the condition on tags
CountConditions_NoTag(filter) ==
    IF filter = None THEN {} ELSE {f \in FilterFields \ {"Tag"} : filter[1][f] # None}

\* bookRepository.Count, the conditions it builds from the filter
CountConditions(filter) ==
    IF filter = None THEN {} ELSE {f \in FilterFields : filter[1][f] # None}

\* ORDER BY created_at DESC: every order of the ids the clause allows; rows
\* with equal created_at come in an order the statement does not fix
OrderByCreatedAtDesc(rows, ids) ==
    {s \in [1 .. Cardinality(ids) -> ids] :
        /\ \A i, j \in DOMAIN s : i # j => s[i] # s[j]
        /\ \A i, j \in DOMAIN s : i < j => rows[s[i]].CreatedAt >= rows[s[j]].CreatedAt}

\* LIMIT ? OFFSET ?, appended when limit > 0 and, for OFFSET, offset > 0
LimitOffset(s, limit, offset) ==
    IF limit <= 0 THEN s
    ELSE LET skip == IF offset > 0 THEN offset ELSE 0
             last == IF skip + limit < Len(s) THEN skip + limit ELSE Len(s)
         IN  SubSeq(s, skip + 1, last)

\* bookRepository.List: the results the query can give, each a sequence of rows
RepoList(rows, filter, limit, offset) ==
    { [i \in DOMAIN s |-> rows[s[i]]] :
        s \in { LimitOffset(o, limit, offset) :
                    o \in OrderByCreatedAtDesc(rows, Selected(rows, ListConditions(filter), filter)) } }

\* bookRepository.Count: SELECT COUNT(*) under the same kind of WHERE clause
RepoCount(rows, filter) == Cardinality(Selected(rows, CountConditions(filter), filter))

\* ------------------------------------------------------------ the use cases
\* validator.Struct(req) on CreateBookRequest: the three `required` fields
ValidCreate(req) ==
    /\ req.Title # ""
    /\ req.Author # ""
    /\ req.PurchaseDate # ZeroTime

\* CreateError rejecting a purchase date that is not before the current time
CreateError_NotBefore(req, t) ==
    IF ~ValidCreate(req) THEN ValidationError
    ELSE IF req.PurchaseDate >= t THEN BusinessRuleError
    ELSE NoError

\* bookUsecase.CreateBook: the error, NoError when the book is created
CreateError(req, t) ==
    IF ~ValidCreate(req) THEN ValidationError
    ELSE IF req.PurchaseDate > t THEN BusinessRuleError
    ELSE NoError

\* RatingOutOfRange without the lower bound
RatingOutOfRange_UpperOnly(rating) ==
    rating # None /\ rating[1] > MaxRating

\* the rating rule shared by UpdateBook and FinishReading
RatingOutOfRange(rating) ==
    rating # None /\ (rating[1] < MinRating \/ rating[1] > MaxRating)

\* UcUpdateBook with the guard of StartReading applied to status = reading
UcUpdateBook_Guarded(rows, id, req, t) ==
    IF id <= 0 THEN <<InvalidArgument, rows>>
    ELSE IF id \notin DOMAIN rows THEN <<NotFound, rows>>
    ELSE IF RatingOutOfRange(req.Rating) THEN <<BusinessRuleError, rows>>
    ELSE IF req.Status = Some("reading") /\ rows[id].Status \in {"reading", "completed"}
         THEN <<BusinessRuleError, rows>>
    ELSE RepoUpdate(rows, id, req, t)

\* bookUsecase.UpdateBook: <<error, rows afterwards>>
UcUpdateBook(rows, id, req, t) ==
    IF id <= 0 THEN <<InvalidArgument, rows>>
    ELSE IF id \notin DOMAIN rows THEN <<NotFound, rows>>
    ELSE IF RatingOutOfRange(req.Rating) THEN <<BusinessRuleError, rows>>
    ELSE RepoUpdate(rows, id, req, t)

\* the request StartReading builds
StartReadingRequest(t) ==
    [EmptyUpdate EXCEPT !.Status = Some(StatusReading), !.StartReadDate = Some(t)]

\* UcStartReading without the "already reading" guard
UcStartReading_NoReadingGuard(rows, id, t) ==
    IF id <= 0 THEN <<InvalidArgument, rows>>
    ELSE IF id \notin DOMAIN rows THEN <<NotFound, rows>>
    ELSE IF rows[id].Status = "completed" THEN <<BusinessRuleError, rows>>
    ELSE RepoUpdate(rows, id, StartReadingRequest(t), t)

\* bookUsecase.StartReading: <<error, rows afterwards>>
UcStartReading(rows, id, t) ==
    IF id <= 0 THEN <<InvalidArgument, rows>>
    ELSE IF id \notin DOMAIN rows THEN <<NotFound, rows>>
    ELSE IF rows[id].Status = StatusReading THEN <<BusinessRuleError, rows>>
    ELSE IF rows[id].Status = StatusCompleted THEN <<BusinessRuleError, rows>>
    ELSE RepoUpdate(rows, id, StartReadingRequest(t), t)

\* FinishReadingRequest without the rating
FinishReadingRequest_NoRating(rating, t) ==
    [EmptyUpdate EXCEPT !.Status = Some("completed"), !.EndReadDate = Some(t)]

\* the request FinishReading builds
FinishReadingRequest(rating, t) ==
    [EmptyUpdate EXCEPT !.Status = Some(StatusCompleted), !.EndReadDate = Some(t),
                        !.Rating = rating]

\* UcFinishReading without the check of the current status
UcFinishReading_NoGuard(rows, id, rating, t) ==
    IF id <= 0 THEN <<InvalidArgument, rows>>
    ELSE IF id \notin DOMAIN rows THEN <<NotFound, rows>>
    ELSE IF RatingOutOfRange(rating) THEN <<BusinessRuleError, rows>>
    ELSE RepoUpdate(rows, id, FinishReadingRequest(rating, t), t)

\* bookUsecase.FinishReading: <<error, rows afterwards>>
UcFinishReading(rows, id, rating, t) ==
    IF id <= 0 THEN <<InvalidArgument, rows>>
    ELSE IF id \notin DOMAIN rows THEN <<NotFound, rows>>
    ELSE IF rows[id].Status # StatusReading THEN <<BusinessRuleError, rows>>
    ELSE IF RatingOutOfRange(rating) THEN <<BusinessRuleError, rows>>
    ELSE RepoUpdate(rows, id, FinishReadingRequest(rating, t), t)

\* UcDeleteBook looking the book up again after the DELETE and reporting that
\* it is not found
UcDeleteBook_LookupAfterDelete(rows, id) ==
    IF id <= 0 THEN <<InvalidArgument, rows>>
    ELSE IF id \notin DOMAIN rows THEN <<NotFound, rows>>
    ELSE <<NotFound, RepoDelete(rows, id)[2]>>

\* bookUsecase.DeleteBook: <<error, rows afterwards>>
UcDeleteBook(rows, id) ==
    IF id <= 0 THEN <<InvalidArgument, rows>>
    ELSE IF id \notin DOMAIN rows THEN <<NotFound, rows>>
    ELSE RepoDelete(rows, id)

\* bookUsecase.GetBook: the error
GetError(rows, id) ==
    IF id <= 0 THEN InvalidArgument
    ELSE IF id \notin DOMAIN rows THEN NotFound
    ELSE NoError

\* what a call returns besides the error: the row read back by GetByID
Returned(err, rows, id) == IF err = NoError /\ id \in DOMAIN rows THEN Some(rows[id]) ELSE None

\* UcListBooks falling back to the largest page size, not the default one
UcListBooks_ClampLimit(rows, filter, page, limit) ==
    LET p == IF page < 1 THEN 1 ELSE page
        l == IF limit < 1 THEN DefaultLimit ELSE IF limit > MaxLimit THEN MaxLimit ELSE limit
        offset == (p - 1) * l
    IN  { [Books |-> b, Total |-> RepoCount(rows, filter), Limit |-> l, Offset |-> offset] :
            b \in RepoList(rows, filter, l, offset) }

\* bookUsecase.ListBooks: the results the call can give, each the page of
\* books and the total it returns, with the limit and offset it passed to List
UcListBooks(rows, filter, page, limit) ==
    LET p == IF page < 1 THEN 1 ELSE page
        l == IF limit < 1 \/ limit > MaxLimit THEN DefaultLimit ELSE limit
        offset == (p - 1) * l
    IN  { [Books |-> b, Total |-> RepoCount(rows, filter), Limit |-> l, Offset |-> offset] :
            b \in RepoList(rows, filter, l, offset) }

\* the sum of a sequence of integers
RECURSIVE Sum(_)
Sum(s) == IF s = << >> THEN 0 ELSE Head(s) + Sum(Tail(s))

\* the first instant of the month that contains t
MonthStart(t) == t - (t % TicksPerMonth)

\* StatusFilter leaving the status out of the filter
StatusFilter_Unfiltered(status) == Some(EmptyFilter)

\* the filter GetStatistics builds for one status
StatusFilter(status) == Some([EmptyFilter EXCEPT !.Status = Some(status)])

\* Statistics averaging over all the books, rated or not
Statistics_AverageOverAll(rows, allBooks, t) ==
    LET rated == {i \in DOMAIN allBooks : allBooks[i].Rating # None}
        ratingSum == Sum([i \in DOMAIN allBooks |->
                            IF i \in rated THEN allBooks[i].Rating[1] ELSE 0])
        ratingCount == Len(allBooks)
    IN  [ TotalBooks         |-> RepoCount(rows, None),
          NotStartedBooks    |-> RepoCount(rows, StatusFilter("not_started")),
          ReadingBooks       |-> RepoCount(rows, StatusFilter("reading")),
          CompletedBooks     |-> RepoCount(rows, StatusFilter("completed")),
          DroppedBooks       |-> RepoCount(rows, StatusFilter("dropped")),
          TotalSpent         |-> Sum([i \in DOMAIN allBooks |-> allBooks[i].PurchasePrice]),
          AverageRating      |-> IF ratingCount > 0 THEN Some(<<ratingSum, ratingCount>>) ELSE None,
          BooksThisMonth     |-> Cardinality({i \in DOMAIN allBooks :
                                     allBooks[i].PurchaseDate >= MonthStart(t)}),
          CompletedThisMonth |-> Cardinality({i \in DOMAIN allBooks :
                                     /\ allBooks[i].EndReadDate # None
                                     /\ allBooks[i].EndReadDate[1] >= MonthStart(t)
                                     /\ allBooks[i].Status = "completed"}) ]

\* bookUsecase.GetStatistics on the list allBooks that List(nil, 0, 0) gave; the
\* average float64(ratingSum) / float64(ratingCount) is kept as the fraction
\* <<ratingSum, ratingCount>>
Statistics(rows, allBooks, t) ==
    LET rated == {i \in DOMAIN allBooks : allBooks[i].Rating # None}
        ratingSum == Sum([i \in DOMAIN allBooks |->
                            IF i \in rated THEN allBooks[i].Rating[1] ELSE 0])
        ratingCount == Cardinality(rated)
    IN  [ TotalBooks         |-> RepoCount(rows, None),
          NotStartedBooks    |-> RepoCount(rows, StatusFilter(StatusNotStarted)),
          ReadingBooks       |-> RepoCount(rows, StatusFilter(StatusReading)),
          CompletedBooks     |-> RepoCount(rows, StatusFilter(StatusCompleted)),
          DroppedBooks       |-> RepoCount(rows, StatusFilter(StatusDropped)),
          TotalSpent         |-> Sum([i \in DOMAIN allBooks |-> allBooks[i].PurchasePrice]),
          AverageRating      |-> IF ratingCount > 0 THEN Some(<<ratingSum, ratingCount>>) ELSE None,
          BooksThisMonth     |-> Cardinality({i \in DOMAIN allBooks :
                                     allBooks[i].PurchaseDate >= MonthStart(t)}),
          CompletedThisMonth |-> Cardinality({i \in DOMAIN allBooks :
                                     /\ allBooks[i].EndReadDate # None
                                     /\ allBooks[i].EndReadDate[1] >= MonthStart(t)
                                     /\ allBooks[i].Status = StatusCompleted}) ]

\* bookUsecase.GetStatistics: the results the call can give
UcGetStatistics(rows, t) == { Statistics(rows, b, t) : b \in RepoList(rows, None, 0, 0) }

\* ------------------------------------------------------------ the handlers
\* the status code a handler writes, given the error of the use case it
\* called: one code per handler for every error
HandlerStatus(op, err) ==
    CASE op = "CreateBook"    -> IF err = NoError THEN StatusCreated ELSE StatusBadRequest
      [] op = "GetBook"       -> IF err = NoError THEN StatusOK ELSE StatusNotFound
      [] op = "ListBooks"     -> IF err = NoError THEN StatusOK ELSE StatusInternalServerError
      [] op = "UpdateBook"    -> IF err = NoError THEN StatusOK ELSE StatusBadRequest
      [] op = "DeleteBook"    -> IF err = NoError THEN StatusOK ELSE StatusNotFound
      [] op = "StartReading"  -> IF err = NoError THEN StatusOK ELSE StatusBadRequest
      [] op = "FinishReading" -> IF err = NoError THEN StatusOK ELSE StatusBadRequest
      [] op = "GetStatistics" -> IF err = NoError THEN StatusOK ELSE StatusInternalServerError

\* ------------------------------------------------------------------ inputs
\* the optional fields of a create request left at their JSON defaults
PlainCreate(title, author, date) ==
    [ Title |-> title, Author |-> author, ISBN |-> "", Publisher |-> "",
      PublishedDate |-> None, PurchaseDate |-> date, PurchasePrice |-> 0,
      Tags |-> "", Notes |-> "" ]

\* a create request that supplies every optional field
RichCreate(date) ==
    [ Title |-> "Go", Author |-> "Ann", ISBN |-> "978", Publisher |-> "Pub",
      PublishedDate |-> Some(1), PurchaseDate |-> date, PurchasePrice |-> 3500,
      Tags |-> "go,web", Notes |-> "memo" ]

\* create requests at time t: empty and present required fields, purchase
\* dates missing, equal to t and after t, and in the past and after t with
\* every optional field
CreateInputs(t) ==
    { PlainCreate(ti, au, d) : ti \in {"", "Go"}, au \in {"", "Ann"}, d \in {ZeroTime, t, t + 1} }
        \cup { RichCreate(d) : d \in {1, t + 1} }

\* the create requests of a client that buys one kind of book
OneCreate(t) == { RichCreate(1), RichCreate(t + 1), PlainCreate("", "Ann", 1) }

\* book ids a call is made with: invalid, and every id the table can hold
IdInputs == 0 .. MaxBooks

\* ratings a call is made with: none, below the range, in it, above it
RatingInputs == {None, Some(0), Some(5), Some(6)}

\* status strings a call is made with: the four statuses and one other string
StatusInputs == {None} \cup {Some(s) : s \in Statuses} \cup {Some("paused")}

\* explicit read dates a call is made with
DateInputs == {None, Some(1)}

\* update requests over status and the two read dates
StatusUpdates ==
    { [EmptyUpdate EXCEPT !.Status = s, !.StartReadDate = sd, !.EndReadDate = ed] :
        s \in StatusInputs, sd \in DateInputs, ed \in DateInputs }

\* update requests that carry a rating
RatingUpdates ==
    { [EmptyUpdate EXCEPT !.Status = s, !.Rating = r] :
        s \in {None, Some(StatusCompleted), Some("paused")}, r \in RatingInputs \ {None} }

\* update requests over the descriptive fields
ContentUpdates ==
    { [EmptyUpdate EXCEPT !.Title = Some("Rust"), !.Notes = Some("good")],
      [EmptyUpdate EXCEPT !.PurchasePrice = Some(1200), !.Tags = Some("rust"),
                          !.Status = Some(StatusDropped)] }

\* the update request of a client that edits title and notes
ShelfUpdates == { [EmptyUpdate EXCEPT !.Title = Some("Rust"), !.Notes = Some("good")] }

UpdateInputs == StatusUpdates \cup RatingUpdates \cup ContentUpdates

\* the requests made with an id that is invalid or has no row
ProbeUpdates ==
    { [EmptyUpdate EXCEPT !.Status = Some(StatusReading)],
      [EmptyUpdate EXCEPT !.Rating = Some(6)] }

\* the calls <<id, request>> a client makes: every request on a stored book,
\* the probes on the other ids
UpdateCalls(rows, inputs) ==
    ((DOMAIN rows) \X inputs) \cup ((IdInputs \ (DOMAIN rows)) \X ProbeUpdates)

\* the create requests of a client that buys two different books
QueryCreates == { RichCreate(1), PlainCreate("Rust", "Bob", 1) }

\* the update requests of a client that reads and rates its books
QueryUpdates ==
    { [EmptyUpdate EXCEPT !.Status = Some(StatusReading), !.Rating = Some(2)],
      [EmptyUpdate EXCEPT !.Status = Some(StatusCompleted), !.Rating = Some(5)],
      [EmptyUpdate EXCEPT !.Status = Some("paused")] }

\* filters a list call is made with: none, the empty one, each field alone
\* (matching and not, letter case and wildcards in the LIKE terms), and
\* combinations
FilterInputs ==
    { None, Some(EmptyFilter) }
        \cup { Some([EmptyFilter EXCEPT !.Status = Some(s)]) : s \in {StatusReading, "paused"} }
        \cup { Some([EmptyFilter EXCEPT !.Author = Some(a)]) : a \in {"Ann", "ann"} }
        \cup { Some([EmptyFilter EXCEPT !.Publisher = Some("Pub")]),
               Some([EmptyFilter EXCEPT !.Rating = Some(5)]) }
        \cup { Some([EmptyFilter EXCEPT !.Tag = Some(g)]) : g \in {"web", "GO", "b,"} }
        \cup { Some([EmptyFilter EXCEPT !.Search = Some(q)]) : q \in {"o", "an", "_u"} }
        \cup { Some([EmptyFilter EXCEPT !.Status = Some(StatusCompleted), !.Rating = Some(5)]),
               Some([EmptyFilter EXCEPT !.Author = Some("Ann"), !.Tag = Some("go"),
                                        !.Search = Some("g")]) }

\* the filters of a client that pages through its books
PageFilters == { Some(EmptyFilter), Some([EmptyFilter EXCEPT !.Search = Some("o")]) }

\* page numbers a list call is made with: below 1, and the first pages
PageInputs == 0 .. MaxBooks + 1

\* page sizes a list call is made with: below 1, small ones, the largest, and
\* above the largest
LimitInputs == {0, 1, 2, MaxLimit, MaxLimit + 1}

\* the create requests of a client that mistypes a price: a complete request,
\* one without a title, one with a negative price
EditCreates ==
    { RichCreate(1), PlainCreate("", "Ann", 1), [RichCreate(1) EXCEPT !.PurchasePrice = -100] }

\* the update requests of a client that blanks and mistypes fields
EditUpdates ==
    { [EmptyUpdate EXCEPT !.Title = Some("")],
      [EmptyUpdate EXCEPT !.Author = Some("")],
      [EmptyUpdate EXCEPT !.Title = Some("Rust")],
      [EmptyUpdate EXCEPT !.PurchasePrice = Some(-1)],
      [EmptyUpdate EXCEPT !.PurchasePrice = Some(1200)] }

\* the create requests of a client that enters the purchase on the spot: a
\* purchase date in the past, and one equal to the current time
ClockCreates(t) == { RichCreate(1), RichCreate(t) }

\* the update requests of a client that renames a book, and the request
\* without any field
ClockUpdates == { [EmptyUpdate EXCEPT !.Title = Some("Rust")], EmptyUpdate }

\* ----------------------------------------------------------------- actions
\* no call has been made, or the response of the last one has been delivered
NoCall == [op |-> "none", id |-> 0, arg |-> None, at |-> 0, seq0 |-> 0, err |-> NoError, ret |-> None]

Idle == call.op = "none"

\* the client sends a request when it holds no response, or sends the request
\* it has just been answered once more
MayCall(op, id, arg) ==
    \/ Idle
    \/ /\ call.op = op
       /\ call.id = id
       /\ call.arg = arg

Init ==
    /\ books = << >>
    /\ seq = 0
    /\ now = TicksPerSec
    /\ call = NoCall
    /\ pre = << >>
    /\ repeat = FALSE
    /\ tasks = << >>

\* a second passes
Sleep ==
    /\ now + TicksPerSec <= MaxSeconds * TicksPerSec
    /\ now' = now + TicksPerSec
    /\ UNCHANGED <<books, seq, call, pre, repeat, tasks>>

\* time passes within the current second
Moment ==
    /\ now % TicksPerSec < TicksPerSec - 1
    /\ now' = now + 1
    /\ UNCHANGED <<books, seq, call, pre, repeat, tasks>>

\* time passes
Tick ==
    /\ now < MaxNow
    /\ now' = now + 1
    /\ UNCHANGED <<books, seq, call, pre, repeat, tasks>>

\* the response is delivered to the client
Respond ==
    /\ ~Idle
    /\ call' = NoCall
    /\ pre' = << >>
    /\ repeat' = FALSE
    /\ UNCHANGED <<books, seq, now, tasks>>

\* CreateBook on a table without AUTOINCREMENT: the new id is one more than
\* the largest id stored
CreateBook_RowidReuse(inputs) ==
    \E req \in inputs :
        LET err == CreateError(req, now)
            largest == IF DOMAIN books = {} THEN 0
                       ELSE CHOOSE i \in DOMAIN books : \A j \in DOMAIN books : j <= i
            id == largest + 1
        IN  /\ Idle
            /\ seq < MaxBooks
            /\ IF err = NoError
               THEN /\ books' = [i \in DOMAIN books \cup {id} |->
                                    IF i = id THEN InsertRow(id, req, now) ELSE books[i]]
                    /\ seq' = IF id > seq THEN id ELSE seq
               ELSE UNCHANGED <<books, seq>>
            /\ call' = [op |-> "CreateBook", id |-> IF err = NoError THEN id ELSE 0,
                        arg |-> req, at |-> now, seq0 |-> seq, err |-> err,
                        ret |-> IF err = NoError THEN Some(books'[id]) ELSE None]
            /\ pre' = books
            /\ repeat' = FALSE
            /\ UNCHANGED <<now, tasks>>

\* POST /books
CreateBook(inputs) ==
    \E req \in inputs :
        LET err == CreateError(req, now)
            id == seq + 1
        IN  /\ Idle
            /\ seq < MaxBooks
            /\ IF err = NoError
               THEN /\ books' = [i \in DOMAIN books \cup {id} |->
                                    IF i = id THEN InsertRow(id, req, now) ELSE books[i]]
                    /\ seq' = id
               ELSE UNCHANGED <<books, seq>>
            /\ call' = [op |-> "CreateBook", id |-> IF err = NoError THEN id ELSE 0,
                        arg |-> req, at |-> now, seq0 |-> seq, err |-> err,
                        ret |-> IF err = NoError THEN Some(books'[id]) ELSE None]
            /\ pre' = books
            /\ repeat' = FALSE
            /\ UNCHANGED <<now, tasks>>

\* GET /books/{id}
GetBook ==
    \E id \in IdInputs :
        LET err == GetError(books, id)
        IN  /\ Idle
            /\ call' = [op |-> "GetBook", id |-> id, arg |-> None, at |-> now, seq0 |-> seq, err |-> err,
                        ret |-> Returned(err, books, id)]
            /\ pre' = books
            /\ repeat' = FALSE
            /\ UNCHANGED <<books, seq, now, tasks>>

\* PUT /books/{id}
UpdateBook(inputs) ==
    \E c \in UpdateCalls(books, inputs) :
        LET id == c[1]
            req == c[2]
            res == UcUpdateBook(books, id, req, now)
        IN  /\ MayCall("UpdateBook", id, req)
            /\ books' = res[2]
            /\ call' = [op |-> "UpdateBook", id |-> id, arg |-> req, at |-> now, seq0 |-> seq, err |-> res[1],
                        ret |-> Returned(res[1], res[2], id)]
            /\ pre' = books
            /\ repeat' = (~Idle /\ call.err = NoError)
            /\ UNCHANGED <<seq, now, tasks>>

\* DELETE /books/{id}
DeleteBook ==
    \E id \in IdInputs :
        LET res == UcDeleteBook(books, id)
        IN  /\ MayCall("DeleteBook", id, None)
            /\ books' = res[2]
            /\ call' = [op |-> "DeleteBook", id |-> id, arg |-> None, at |-> now, seq0 |-> seq, err |-> res[1],
                        ret |-> None]
            /\ pre' = books
            /\ repeat' = (~Idle /\ call.err = NoError)
            /\ UNCHANGED <<seq, now, tasks>>

\* POST /books/{id}/start-reading
StartReading ==
    \E id \in IdInputs :
        LET res == UcStartReading(books, id, now)
        IN  /\ MayCall("StartReading", id, None)
            /\ books' = res[2]
            /\ call' = [op |-> "StartReading", id |-> id, arg |-> None, at |-> now, seq0 |-> seq, err |-> res[1],
                        ret |-> Returned(res[1], res[2], id)]
            /\ pre' = books
            /\ repeat' = (~Idle /\ call.err = NoError)
            /\ UNCHANGED <<seq, now, tasks>>

\* POST /books/{id}/finish-reading
FinishReading(inputs) ==
    \E id \in IdInputs, rating \in inputs :
        LET res == UcFinishReading(books, id, rating, now)
        IN  /\ MayCall("FinishReading", id, rating)
            /\ books' = res[2]
            /\ call' = [op |-> "FinishReading", id |-> id, arg |-> rating, at |-> now, seq0 |-> seq, err |-> res[1],
                        ret |-> Returned(res[1], res[2], id)]
            /\ pre' = books
            /\ repeat' = (~Idle /\ call.err = NoError)
            /\ UNCHANGED <<seq, now, tasks>>

\* GET /books
ListBooks(filters, pages, limits) ==
    /\ Idle
    /\ \E filter \in filters, page \in pages, limit \in limits :
        \E res \in UcListBooks(books, filter, page, limit) :
            /\ call' = [op |-> "ListBooks", id |-> 0,
                        arg |-> [Filter |-> filter, Page |-> page, Limit |-> limit],
                        at |-> now, seq0 |-> seq, err |-> NoError, ret |-> Some(res)]
            /\ pre' = books
            /\ repeat' = FALSE
            /\ UNCHANGED <<books, seq, now, tasks>>

\* GET /statistics
GetStatistics ==
    /\ Idle
    /\ \E res \in UcGetStatistics(books, now) :
        /\ call' = [op |-> "GetStatistics", id |-> 0, arg |-> None, at |-> now, seq0 |-> seq,
                    err |-> NoError, ret |-> Some(res)]
        /\ pre' = books
        /\ repeat' = FALSE
        /\ UNCHANGED <<books, seq, now, tasks>>

\* one book on the shelf at a time, every request on it
Next ==
    \/ Tick
    \/ Respond
    \/ (DOMAIN books = {} /\ CreateBook(OneCreate(now)))
    \/ GetBook
    \/ UpdateBook(UpdateInputs)
    \/ DeleteBook
    \/ StartReading
    \/ FinishReading(RatingInputs)

Spec == Init /\ [][Next]_vars

\* several books on the shelf, every create request, the clock standing still
NextShelf ==
    \/ Respond
    \/ CreateBook(CreateInputs(now))
    \/ GetBook
    \/ UpdateBook(ShelfUpdates)
    \/ DeleteBook
    \/ StartReading
    \/ FinishReading({None, Some(5)})

SpecShelf == Init /\ [][NextShelf]_vars

\* several books read and rated, every filter, the statistics, the clock
\* standing still
NextQuery ==
    \/ Respond
    \/ CreateBook(QueryCreates)
    \/ UpdateBook(QueryUpdates)
    \/ ListBooks(FilterInputs, {1}, {1, MaxLimit + 1})
    \/ GetStatistics

SpecQuery == Init /\ [][NextQuery]_vars

\* books bought in different seconds and in the same one, every page of them
NextPages ==
    \/ Respond
    \/ Sleep
    \/ CreateBook(QueryCreates)
    \/ ListBooks(PageFilters, PageInputs, LimitInputs)

SpecPages == Init /\ [][NextPages]_vars

\* several books, requests that blank the required fields or carry a negative
\* price, the statistics, the clock standing still
NextEdit ==
    \/ Respond
    \/ CreateBook(EditCreates)
    \/ UpdateBook(EditUpdates)
    \/ GetStatistics

SpecEdit == Init /\ [][NextEdit]_vars

\* one book on the shelf at a time, the clock moving within a second and from
\* one second to the next
NextClock ==
    \/ Moment
    \/ Sleep
    \/ Respond
    \/ (DOMAIN books = {} /\ CreateBook(ClockCreates(now)))
    \/ UpdateBook(ClockUpdates)
    \/ StartReading
    \/ FinishReading({None, Some(5)})

SpecClock == Init /\ [][NextClock]_vars

\* several books, the clock moving, every request but UpdateBook, and the
\* statistics
NextLifecycle ==
    \/ Tick
    \/ Respond
    \/ CreateBook({RichCreate(1)})
    \/ StartReading
    \/ FinishReading({None, Some(5)})
    \/ DeleteBook
    \/ GetStatistics

SpecLifecycle == Init /\ [][NextLifecycle]_vars

\* one book on the shelf at a time, every request on it, the list and the
\* statistics
NextAll ==
    \/ Next
    \/ ListBooks(PageFilters, {1}, {1})
    \/ GetStatistics

SpecAll == Init /\ [][NextAll]_vars

\* ------------------------------------------------------ concurrent handling
\* net/http serves every request on a goroutine of its own, and the use cases
\* run their statements on the shared *sql.DB without a transaction: a request
\* goes through its statements one at a time, the statements of other requests
\* in between.

\* the first part of a mutating use case: the id check, GetByID and the rules
\* checked on the row it read
CheckError(op, rows, id, arg) ==
    IF id <= 0 THEN InvalidArgument
    ELSE IF id \notin DOMAIN rows THEN NotFound
    ELSE IF op = "UpdateBook" /\ RatingOutOfRange(arg.Rating) THEN BusinessRuleError
    ELSE IF op = "StartReading" /\ rows[id].Status \in {StatusReading, StatusCompleted}
         THEN BusinessRuleError
    ELSE IF op = "FinishReading" /\ rows[id].Status # StatusReading THEN BusinessRuleError
    ELSE IF op = "FinishReading" /\ RatingOutOfRange(arg) THEN BusinessRuleError
    ELSE NoError

\* the request a use case passes to bookRepository.Update
TaskRequest(op, arg, t) ==
    CASE op = "UpdateBook"    -> arg
      [] op = "StartReading"  -> StartReadingRequest(t)
      [] op = "FinishReading" -> FinishReadingRequest(arg, t)

\* the mutating requests of two clients working on one book
TaskInputs ==
    { <<"UpdateBook", [EmptyUpdate EXCEPT !.Status = Some(StatusCompleted)]>>,
      <<"StartReading", None>>,
      <<"FinishReading", None>>,
      <<"DeleteBook", None>> }

\* every request being handled has been answered
AllDone == \A i \in DOMAIN tasks : tasks[i].pc = "done"

\* the server accepts a request on a stored or deleted id; the requests in
\* flight together are on the same id
Accept ==
    \E in \in TaskInputs, id \in 1 .. seq :
        /\ Idle
        /\ Len(tasks) < MaxTasks
        /\ tasks # << >> => (id = tasks[1].id /\ ~AllDone)
        /\ tasks' = Append(tasks, [op |-> in[1], id |-> id, arg |-> in[2],
                                   pc |-> "check", err |-> NoError, book |-> None])
        /\ pre' = IF tasks = << >> THEN books ELSE pre
        /\ UNCHANGED <<books, seq, now, call, repeat>>

\* a request runs the checks of its use case on the row GetByID returns now,
\* which it keeps in book
Check ==
    \E i \in DOMAIN tasks :
        LET task == tasks[i]
            err == CheckError(task.op, books, task.id, task.arg)
        IN  /\ task.pc = "check"
            /\ tasks' = [tasks EXCEPT ![i].err = err,
                                      ![i].pc = IF err = NoError THEN "exec" ELSE "done",
                                      ![i].book = IF task.id \in DOMAIN books
                                                  THEN Some(books[task.id]) ELSE None]
            /\ UNCHANGED <<books, seq, now, call, pre, repeat>>

\* a request runs its UPDATE or DELETE statement: an UPDATE that matches no
\* row changes nothing and is no error, a DELETE that matches no row is one
Exec ==
    \E i \in DOMAIN tasks :
        LET task == tasks[i]
            req == TaskRequest(task.op, task.arg, now)
        IN  /\ task.pc = "exec"
            /\ IF task.op = "DeleteBook" THEN
                   LET res == RepoDelete(books, task.id)
                   IN  /\ books' = res[2]
                       /\ tasks' = [tasks EXCEPT ![i].err = res[1], ![i].pc = "done"]
               ELSE IF SetParts(req) = {} \/ task.id \notin DOMAIN books THEN
                   /\ tasks' = [tasks EXCEPT ![i].pc = "read"]
                   /\ UNCHANGED books
               ELSE IF ~ChecksPass(AssignedRow(books[task.id], req, now)) THEN
                   /\ tasks' = [tasks EXCEPT ![i].err = StoreError, ![i].pc = "done"]
                   /\ UNCHANGED books
               ELSE
                   /\ books' = [books EXCEPT ![task.id] =
                                   UpdatedAtTrigger(AssignedRow(books[task.id], req, now), now)]
                   /\ tasks' = [tasks EXCEPT ![i].pc = "read"]
            /\ UNCHANGED <<seq, now, call, pre, repeat>>

\* ReadBack answering with the row the UPDATE statement was built from
ReadBack_ReturnsBuilt ==
    \E i \in DOMAIN tasks :
        /\ tasks[i].pc = "read"
        /\ tasks' = [tasks EXCEPT ![i].err = NoError, ![i].pc = "done"]
        /\ UNCHANGED <<books, seq, now, call, pre, repeat>>

\* bookRepository.Update ends with GetByID, whose error it returns
ReadBack ==
    \E i \in DOMAIN tasks :
        /\ tasks[i].pc = "read"
        /\ tasks' = [tasks EXCEPT ![i].err = IF tasks[i].id \in DOMAIN books
                                             THEN NoError ELSE NotFound,
                                  ![i].pc = "done"]
        /\ UNCHANGED <<books, seq, now, call, pre, repeat>>

\* the responses of the requests handled together have been delivered
Drain ==
    /\ tasks # << >>
    /\ AllDone
    /\ tasks' = << >>
    /\ pre' = << >>
    /\ UNCHANGED <<books, seq, now, call, repeat>>

\* one book, mutating requests on it handled at the same time, the clock
\* standing still
NextConc ==
    \/ Respond
    \/ (DOMAIN books = {} /\ tasks = << >> /\ CreateBook({RichCreate(1)}))
    \/ Accept
    \/ Check
    \/ Exec
    \/ ReadBack
    \/ Drain

SpecConc == Init /\ [][NextConc]_vars

\* bookUsecase.GetStatistics runs six queries, Count(nil), one Count for each
\* status in the order the map iteration gives, and List(nil, 0, 0); the
\* request keeps what it has read so far in Total and Counts, its result in
\* Stats, and Listed is len(allBooks)
NewStatistics == [Total |-> 0, Counts |-> << >>, Stats |-> None, Listed |-> 0]

\* the server accepts a GET /statistics while no other one is being handled
AcceptStatistics ==
    /\ tasks = << >>
    /\ tasks' = << [op |-> "GetStatistics", id |-> 0, arg |-> NewStatistics,
                    pc |-> "total", err |-> NoError, book |-> None] >>
    /\ UNCHANGED <<books, seq, now, call, pre, repeat>>

\* total, err := u.bookRepo.Count(nil)
CountTotal ==
    \E i \in DOMAIN tasks :
        /\ tasks[i].pc = "total"
        /\ tasks' = [tasks EXCEPT ![i].arg.Total = RepoCount(books, None),
                                  ![i].pc = "status"]
        /\ UNCHANGED <<books, seq, now, call, pre, repeat>>

\* one round of the loop over statusCounts: u.bookRepo.Count(filter) for a
\* status not counted yet
CountStatus ==
    \E i \in DOMAIN tasks :
        \E status \in Statuses \ DOMAIN tasks[i].arg.Counts :
            /\ tasks[i].pc = "status"
            /\ tasks' = [tasks EXCEPT
                            ![i].arg.Counts =
                                (status :> RepoCount(books, StatusFilter(status))) @@ @,
                            ![i].pc = IF DOMAIN tasks[i].arg.Counts \cup {status} = Statuses
                                      THEN "list" ELSE "status"]
            /\ UNCHANGED <<books, seq, now, call, pre, repeat>>

\* allBooks, err := u.bookRepo.List(nil, 0, 0), and the sums over allBooks
\* put together with the counts read before
ListAll ==
    \E i \in DOMAIN tasks :
        /\ tasks[i].pc = "list"
        /\ \E allBooks \in RepoList(books, None, 0, 0) :
               LET arg == tasks[i].arg
                   stats == [Statistics(<< >>, allBooks, now) EXCEPT
                                !.TotalBooks = arg.Total,
                                !.NotStartedBooks = arg.Counts[StatusNotStarted],
                                !.ReadingBooks = arg.Counts[StatusReading],
                                !.CompletedBooks = arg.Counts[StatusCompleted],
                                !.DroppedBooks = arg.Counts[StatusDropped]]
               IN  tasks' = [tasks EXCEPT ![i].arg.Stats = Some(stats),
                                          ![i].arg.Listed = Len(allBooks),
                                          ![i].pc = "done"]
        /\ UNCHANGED <<books, seq, now, call, pre, repeat>>

\* the statistics have been delivered
Deliver ==
    /\ tasks # << >>
    /\ AllDone
    /\ tasks' = << >>
    /\ UNCHANGED <<books, seq, now, call, pre, repeat>>

\* the requests that change the table while the statistics are read
BusyUpdates ==
    { [EmptyUpdate EXCEPT !.Status = Some(StatusCompleted), !.Rating = Some(5)],
      [EmptyUpdate EXCEPT !.Status = Some(StatusDropped)] }

\* a GET /statistics handled while other requests create, update and delete
\* books, the clock standing still
NextStats ==
    \/ Respond
    \/ CreateBook({RichCreate(1)})
    \/ UpdateBook(BusyUpdates)
    \/ DeleteBook
    \/ AcceptStatistics
    \/ CountTotal
    \/ CountStatus
    \/ ListAll
    \/ Deliver

SpecStats == Init /\ [][NextStats]_vars

\* ------------------------------------------------------------------ claims
\* the last call was op on a book that was stored when the call was made
CalledOnStored(op) == call.op = op /\ call.id \in DOMAIN pre

\* the last call succeeded
Succeeded == call.err = NoError

\* the columns of a row
RowFields ==
    {"ID", "Title", "Author", "ISBN", "Publisher", "PublishedDate", "PurchaseDate",
     "PurchasePrice", "Status", "StartReadDate", "EndReadDate", "Rating", "Notes",
     "Tags", "CreatedAt", "UpdatedAt"}

\* C1: every stored book with status not_started has no start-read date, and
\* every stored book with an end-read date has status completed or dropped.
C1_DatesFollowStatus ==
    \A id \in DOMAIN books :
        /\ books[id].Status = StatusNotStarted => books[id].StartReadDate = None
        /\ books[id].EndReadDate # None => books[id].Status \in {StatusCompleted, StatusDropped}

\* C2: every stored status is one of the four statuses, and an UpdateBook whose
\* status is any other string fails and leaves the table as it was.
C2_StatusInEnum ==
    /\ \A id \in DOMAIN books :
          books[id].Status \in {"not_started", "reading", "completed", "dropped"}
    /\ ( /\ call.op = "UpdateBook"
         /\ call.arg.Status # None
         /\ call.arg.Status[1] \notin {"not_started", "reading", "completed", "dropped"} )
       => (~Succeeded /\ books = pre)

\* C2 witness: an update with an unknown status and an explicit start-read date
\* on a stored book was rejected by the table.
C2_Witness ==
    /\ CalledOnStored("UpdateBook")
    /\ call.arg.Status = Some("paused")
    /\ call.arg.StartReadDate # None
    /\ call.err = StoreError

\* C3: StartReading on a stored book succeeds exactly when its status is
\* not_started or dropped, then the status is reading and the start-read date
\* is the time of the call; on reading or completed it fails with a
\* business-rule error and changes nothing; repeated directly after a success
\* it fails.
C3_StartReadingGuard ==
    CalledOnStored("StartReading") =>
        LET old == pre[call.id] IN
        /\ Succeeded <=> old.Status \in {"not_started", "dropped"}
        /\ Succeeded =>
              /\ books[call.id].Status = "reading"
              /\ books[call.id].StartReadDate = Some(call.at)
              /\ call.ret = Some(books[call.id])
        /\ old.Status \in {"reading", "completed"} =>
              (call.err = BusinessRuleError /\ books = pre)
        /\ repeat => (call.err = BusinessRuleError /\ books = pre)

\* C3 witness: StartReading was repeated directly after it had succeeded.
C3_Witness ==
    /\ CalledOnStored("StartReading")
    /\ repeat
    /\ pre[call.id].StartReadDate # None
    /\ call.err = BusinessRuleError

\* C4: FinishReading on a stored book succeeds only when its status is reading;
\* then the status is completed, the end-read date is the time of the call and
\* a supplied rating is stored; on any other status it fails with a
\* business-rule error and changes nothing.
C4_FinishReadingGuard ==
    CalledOnStored("FinishReading") =>
        LET old == pre[call.id] IN
        /\ Succeeded =>
              /\ old.Status = "reading"
              /\ books[call.id].Status = "completed"
              /\ books[call.id].EndReadDate = Some(call.at)
              /\ call.arg # None => books[call.id].Rating = call.arg
              /\ call.ret = Some(books[call.id])
        /\ old.Status # "reading" => (call.err = BusinessRuleError /\ books = pre)

\* C4 witness: FinishReading with a rating succeeded on a reading book.
C4_Witness ==
    /\ CalledOnStored("FinishReading")
    /\ Succeeded
    /\ call.arg = Some(5)
    /\ pre[call.id].Rating = None

\* the rating a call carries, None when it carries none
CallRating ==
    IF call.op = "UpdateBook" THEN call.arg.Rating
    ELSE IF call.op = "FinishReading" THEN call.arg
    ELSE None

\* C5: every stored rating is absent or within 1..5, and an UpdateBook or a
\* FinishReading with a rating below 1 or above 5 fails and leaves the table as
\* it was; on a stored book the failure is a business-rule error.
C5_RatingInRange ==
    /\ \A id \in DOMAIN books :
          books[id].Rating = None \/ books[id].Rating[1] \in 1 .. 5
    /\ (CallRating # None /\ CallRating[1] \notin 1 .. 5) =>
          /\ ~Succeeded
          /\ books = pre
          /\ call.id \in DOMAIN pre => call.err = BusinessRuleError

\* C5 witness: an update carrying rating 0 together with a status was refused
\* on a stored book.
C5_Witness ==
    /\ CalledOnStored("UpdateBook")
    /\ call.arg.Rating = Some(0)
    /\ call.arg.Status = Some("completed")
    /\ call.err = BusinessRuleError

\* C6: UpdateBook with one of the four statuses (and no rating out of range)
\* on a stored book succeeds whatever the current status is and leaves the
\* book with the requested status.
C6_UpdateBypassesGuards ==
    ( /\ CalledOnStored("UpdateBook")
      /\ call.arg.Status # None
      /\ call.arg.Status[1] \in {"not_started", "reading", "completed", "dropped"}
      /\ ~(call.arg.Rating # None /\ call.arg.Rating[1] \notin 1 .. 5) )
    => (Succeeded /\ books[call.id].Status = call.arg.Status[1])

\* C6 witness: an update moved a completed book back to reading.
C6_Witness ==
    /\ CalledOnStored("UpdateBook")
    /\ Succeeded
    /\ pre[call.id].Status = "completed"
    /\ books[call.id].Status = "reading"

\* the last call was a successful UpdateBook repeating, with the same request,
\* the successful UpdateBook before it
RepeatedUpdate == call.op = "UpdateBook" /\ repeat /\ Succeeded

\* C7 as stated: the second application of an identical update request leaves
\* every field other than updated-at as the first application left it.
C7_UpdateIdempotent ==
    RepeatedUpdate =>
        \A f \in RowFields \ {"UpdatedAt"} : books[call.id][f] = pre[call.id][f]

\* the read dates a request has the store stamp with the time of the call
StampedBy(req) ==
    (IF req.Status = Some("reading") /\ req.StartReadDate = None
     THEN {"StartReadDate"} ELSE {})
        \cup (IF req.Status \in {Some("completed"), Some("dropped")} /\ req.EndReadDate = None
              THEN {"EndReadDate"} ELSE {})

\* C7 amended: the second application of an identical update request leaves
\* every field as the first application left it, except updated-at and the
\* read date the request has the store stamp, which becomes the time of the
\* second call.
C7_UpdateIdempotentButStamps ==
    RepeatedUpdate =>
        \A f \in RowFields \ {"UpdatedAt"} :
            IF f \in StampedBy(call.arg)
            THEN books[call.id][f] = Some(call.at)
            ELSE books[call.id][f] = pre[call.id][f]

\* C7 witness: a status-only update was repeated at a later time and moved the
\* start-read date.
C7_Witness ==
    /\ RepeatedUpdate
    /\ call.arg.Status = Some("reading")
    /\ call.arg.StartReadDate = None
    /\ books[call.id].StartReadDate # pre[call.id].StartReadDate

\* C8: a successful CreateBook returns and stores a book with a new id, status
\* not_started, no read dates, no rating and the fields of the request; the
\* books stored before are unchanged.
C8_CreateDefaults ==
    (call.op = "CreateBook" /\ Succeeded) =>
        /\ call.id \notin DOMAIN pre
        /\ DOMAIN books = DOMAIN pre \cup {call.id}
        /\ \A i \in DOMAIN pre : books[i] = pre[i] /\ i < call.id
        /\ call.ret = Some(books[call.id])
        /\ LET b == books[call.id]
               req == call.arg
           IN  /\ b.ID = call.id
               /\ b.Status = "not_started"
               /\ b.StartReadDate = None
               /\ b.EndReadDate = None
               /\ b.Rating = None
               /\ b.Title = req.Title
               /\ b.Author = req.Author
               /\ b.ISBN = req.ISBN
               /\ b.Publisher = req.Publisher
               /\ b.PublishedDate = req.PublishedDate
               /\ b.PurchaseDate = req.PurchaseDate
               /\ b.PurchasePrice = req.PurchasePrice
               /\ b.Tags = req.Tags
               /\ b.Notes = req.Notes

\* C8 witness: a book with every optional field was created next to a stored
\* book that is being read.
C8_Witness ==
    /\ call.op = "CreateBook"
    /\ Succeeded
    /\ call.arg.Tags = "go,web"
    /\ \E i \in DOMAIN pre : pre[i].Status = "reading"

\* C9: CreateBook with an empty title, an empty author, no purchase date or a
\* purchase date after the current time fails, stores nothing and assigns no
\* id; with title, author and a purchase date equal to the current time it
\* succeeds.
C9_CreateRejects ==
    call.op = "CreateBook" =>
        /\ ( \/ call.arg.Title = ""
             \/ call.arg.Author = ""
             \/ call.arg.PurchaseDate = ZeroTime
             \/ call.arg.PurchaseDate > call.at )
           => (~Succeeded /\ books = pre /\ seq = call.seq0)
        /\ ( /\ call.arg.Title # ""
             /\ call.arg.Author # ""
             /\ call.arg.PurchaseDate = call.at )
           => (Succeeded /\ call.id \in DOMAIN books)

\* C9 witness: a create request complete but for a purchase date after the
\* current time was refused while a book was stored.
C9_Witness ==
    /\ call.op = "CreateBook"
    /\ call.arg.Title # ""
    /\ call.arg.Author # ""
    /\ call.arg.PurchaseDate > call.at
    /\ ~Succeeded
    /\ DOMAIN pre # {}

\* C10: a successful UpdateBook stores the value of every field the request
\* carries and keeps every other field, except that start-read date becomes
\* the time of the call for status reading without a start-read date, that
\* end-read date becomes the time of the call for status completed or dropped
\* without an end-read date, and that updated-at is refreshed; id, purchase
\* date and created-at are kept.
C10_UpdateFrame ==
    (CalledOnStored("UpdateBook") /\ Succeeded) =>
        LET old == pre[call.id]
            new == books[call.id]
            req == call.arg
        IN  /\ \A f \in {"Title", "Author", "ISBN", "Publisher", "PurchasePrice",
                         "Status", "Notes", "Tags"} :
                  new[f] = IF req[f] # None THEN req[f][1] ELSE old[f]
            /\ \A f \in {"PublishedDate", "Rating"} :
                  new[f] = IF req[f] # None THEN req[f] ELSE old[f]
            /\ new.StartReadDate =
                  IF req.StartReadDate # None THEN req.StartReadDate
                  ELSE IF req.Status = Some("reading") THEN Some(call.at)
                  ELSE old.StartReadDate
            /\ new.EndReadDate =
                  IF req.EndReadDate # None THEN req.EndReadDate
                  ELSE IF req.Status \in {Some("completed"), Some("dropped")} THEN Some(call.at)
                  ELSE old.EndReadDate
            /\ new.UpdatedAt \in {old.UpdatedAt, call.at - (call.at % TicksPerSec)}
            /\ new.ID = old.ID
            /\ new.PurchaseDate = old.PurchaseDate
            /\ new.CreatedAt = old.CreatedAt
            /\ \A i \in DOMAIN pre \ {call.id} : books[i] = pre[i]

\* C10 witness: an update carrying status reading and an explicit start-read
\* date stored the explicit date, not the time of the call.
C10_Witness ==
    /\ CalledOnStored("UpdateBook")
    /\ Succeeded
    /\ call.arg.Status = Some("reading")
    /\ call.arg.StartReadDate # None
    /\ call.arg.StartReadDate # Some(call.at)
    /\ books[call.id].StartReadDate = call.arg.StartReadDate
    /\ pre[call.id].StartReadDate # call.arg.StartReadDate

\* the last call was FinishReading without a rating on a book being read
FinishedUnrated ==
    /\ CalledOnStored("FinishReading")
    /\ call.arg = None
    /\ pre[call.id].Status = "reading"

\* C11 as stated: FinishReading without a rating on a reading book succeeds
\* and leaves status completed, end-read date the time of the call and no
\* rating.
C11_FinishUnratedClears ==
    FinishedUnrated =>
        /\ Succeeded
        /\ books[call.id].Status = "completed"
        /\ books[call.id].EndReadDate = Some(call.at)
        /\ books[call.id].Rating = None

\* C11 amended: FinishReading without a rating on a reading book succeeds and
\* leaves status completed, end-read date the time of the call and the rating
\* the book had before the call (none when it had none).
C11_FinishUnratedKeeps ==
    FinishedUnrated =>
        /\ Succeeded
        /\ books[call.id].Status = "completed"
        /\ books[call.id].EndReadDate = Some(call.at)
        /\ books[call.id].Rating = pre[call.id].Rating

\* C11 witness: FinishReading without a rating completed a reading book that
\* an update had rated before.
C11_Witness ==
    /\ FinishedUnrated
    /\ Succeeded
    /\ pre[call.id].Rating = Some(5)
    /\ books[call.id].Status = "completed"

\* the stored books a filter describes: every field the filter carries agrees
\* with the book, tag and search as LIKE patterns between two % signs
Matching(rows, filter) ==
    {id \in DOMAIN rows :
        \/ filter = None
        \/ LET f == filter[1]
               b == rows[id]
           IN  /\ f.Status # None => b.Status = f.Status[1]
               /\ f.Author # None => b.Author = f.Author[1]
               /\ f.Publisher # None => b.Publisher = f.Publisher[1]
               /\ f.Rating # None => b.Rating = f.Rating
               /\ f.Tag # None => Like("%" \o f.Tag[1] \o "%", b.Tags)
               /\ f.Search # None => \/ Like("%" \o f.Search[1] \o "%", b.Title)
                                     \/ Like("%" \o f.Search[1] \o "%", b.Author)}

\* C12: for the store and the filter of every ListBooks call, List without
\* limit and offset returns as many books as Count counts, and the total the
\* call returns is the number of stored books the filter describes.
C12_ListCountAgree ==
    call.op = "ListBooks" =>
        /\ \A b \in RepoList(pre, call.arg.Filter, 0, 0) :
              Len(b) = RepoCount(pre, call.arg.Filter)
        /\ call.ret[1].Total = Cardinality(Matching(pre, call.arg.Filter))

\* C12 witness: a list call filtered by a tag in other letter case found one
\* of two stored books.
C12_Witness ==
    /\ call.op = "ListBooks"
    /\ call.arg.Filter = Some([EmptyFilter EXCEPT !.Tag = Some("GO")])
    /\ Cardinality(DOMAIN pre) = 2
    /\ call.ret[1].Total = 1

\* the sum of f over the set S
RECURSIVE SetSum(_, _)
SetSum(f, S) ==
    IF S = {} THEN 0
    ELSE LET x == CHOOSE x \in S : TRUE IN f[x] + SetSum(f, S \ {x})

\* C13: GetStatistics returns, for each of the four statuses, the number of
\* stored books with that status, and a total that is the sum of the four.
C13_StatusCountsAddUp ==
    call.op = "GetStatistics" =>
        LET st == call.ret[1]
            n(s) == Cardinality({id \in DOMAIN pre : pre[id].Status = s})
        IN  /\ st.NotStartedBooks = n("not_started")
            /\ st.ReadingBooks = n("reading")
            /\ st.CompletedBooks = n("completed")
            /\ st.DroppedBooks = n("dropped")
            /\ st.TotalBooks =
                  st.NotStartedBooks + st.ReadingBooks + st.CompletedBooks + st.DroppedBooks

\* C13 witness: statistics were taken over a reading and a completed book.
C13_Witness ==
    /\ call.op = "GetStatistics"
    /\ call.ret[1].ReadingBooks = 1
    /\ call.ret[1].CompletedBooks = 1
    /\ call.ret[1].TotalBooks = 2

\* the status code each error kind stands for
KindStatus(err) ==
    CASE err = NotFound -> 404
      [] err \in {InvalidArgument, ValidationError, BusinessRuleError} -> 400
      [] err = StoreError -> 500

\* C14: on the endpoints that take a book id, a failed request is answered
\* with the status code of its error kind, whatever the endpoint: 404 for not
\* found, 400 for invalid argument, validation and business-rule errors, 500
\* for a failure of the store.
C14_StatusByKind ==
    ( /\ call.op \in {"GetBook", "UpdateBook", "DeleteBook", "StartReading", "FinishReading"}
      /\ ~Succeeded )
    => HandlerStatus(call.op, call.err) = KindStatus(call.err)

\* a mutating use case run alone: <<error, rows afterwards>>
Alone(task, rows, t) ==
    CASE task.op = "UpdateBook"    -> UcUpdateBook(rows, task.id, task.arg, t)
      [] task.op = "StartReading"  -> UcStartReading(rows, task.id, t)
      [] task.op = "FinishReading" -> UcFinishReading(rows, task.id, task.arg, t)
      [] task.op = "DeleteBook"    -> UcDeleteBook(rows, task.id)

\* the requests in flight run one after another in the given order, from the
\* given rows: <<rows afterwards, the error of each request>>
RECURSIVE OneByOne(_, _, _)
OneByOne(rows, order, errs) ==
    IF order = << >> THEN <<rows, errs>>
    ELSE LET i == Head(order)
             res == Alone(tasks[i], rows, now)
         IN  OneByOne(res[2], Tail(order), [errs EXCEPT ![i] = res[1]])

\* the orders in which the requests in flight can run one after another
Orders ==
    {o \in [DOMAIN tasks -> DOMAIN tasks] : \A i, j \in DOMAIN tasks : i # j => o[i] # o[j]}

\* C15: when the mutating requests handled together on one book have all been
\* answered, the table and the success or failure of each request are those
\* of running the same requests one after another in some order.
C15_Serializable ==
    (tasks # << >> /\ AllDone) =>
        \E o \in Orders :
            OneByOne(pre, o, [i \in DOMAIN tasks |-> NoError])
                = <<books, [i \in DOMAIN tasks |-> tasks[i].err]>>

\* the last call was made on an id whose book had been deleted before
CalledOnDeleted == call.id \in 1 .. call.seq0 /\ call.id \notin DOMAIN pre

\* C16: a successful DeleteBook removes the book with the given id and leaves
\* every other stored book as it was; GetBook, UpdateBook, DeleteBook,
\* StartReading and FinishReading on the id of a deleted book fail with not
\* found; DeleteBook on an id that is not positive or has no book fails and
\* leaves the table as it was.
C16_DeleteFrame ==
    /\ (call.op = "DeleteBook" /\ Succeeded) =>
          /\ call.id \in DOMAIN pre
          /\ DOMAIN books = DOMAIN pre \ {call.id}
          /\ \A i \in DOMAIN books : books[i] = pre[i]
    /\ ( /\ call.op \in {"GetBook", "UpdateBook", "DeleteBook", "StartReading", "FinishReading"}
         /\ CalledOnDeleted )
       => (call.err = NotFound /\ books = pre)
    /\ (call.op = "DeleteBook" /\ (call.id <= 0 \/ call.id \notin DOMAIN pre)) =>
          (~Succeeded /\ books = pre)

\* C16 witness: DeleteBook was repeated directly after it had removed one of
\* two books, and found nothing.
C16_Witness ==
    /\ call.op = "DeleteBook"
    /\ repeat
    /\ CalledOnDeleted
    /\ call.err = NotFound
    /\ DOMAIN books # {}

\* the complete lists of the stored books a filter describes, newest first
FullLists(rows, filter) ==
    LET ids == Matching(rows, filter)
    IN  { [i \in DOMAIN o |-> rows[o[i]]] :
            o \in {o \in [1 .. Cardinality(ids) -> ids] :
                      /\ \A i, j \in DOMAIN o : i # j => o[i] # o[j]
                      /\ \A i, j \in DOMAIN o :
                            i < j => rows[o[i]].CreatedAt >= rows[o[j]].CreatedAt} }

C18_AverageAndSpent ==
    call.op = "GetStatistics" =>
        LET st == call.ret[1]
            rated == {id \in DOMAIN pre : pre[id].Rating # None}
            ratings == [id \in rated |-> pre[id].Rating[1]]
            prices == [id \in DOMAIN pre |-> pre[id].PurchasePrice]
        IN  /\ st.AverageRating = None <=> rated = {}
            /\ rated # {} =>
                  /\ st.AverageRating = Some(<<SetSum(ratings, rated), Cardinality(rated)>>)
                  /\ 1 * st.AverageRating[1][2] <= st.AverageRating[1][1]
                  /\ st.AverageRating[1][1] <= 5 * st.AverageRating[1][2]
            /\ st.TotalSpent = SetSum(prices, DOMAIN pre)

\* C18 witness: statistics were taken over a rated and an unrated book, one of
\* them bought at a price.
C18_Witness ==
    /\ call.op = "GetStatistics"
    /\ call.ret[1].TotalBooks = 2
    /\ call.ret[1].AverageRating = Some(<<5, 1>>)
    /\ call.ret[1].TotalSpent = 3500

\* C19: every stored book has a non-empty title and a non-empty author.
C19_TitleAuthorPresent ==
    \A id \in DOMAIN books : books[id].Title # "" /\ books[id].Author # ""

\* C20: every stored purchase price is at least 0, and so is the total spent
\* that GetStatistics returns.
C20_PriceNonNegative ==
    /\ \A id \in DOMAIN books : books[id].PurchasePrice >= 0
    /\ call.op = "GetStatistics" => call.ret[1].TotalSpent >= 0

\* C21: an UpdateBook that carries a rating and no status, on a stored book
\* whose status is not_started, does not store the rating.
C21_RatingNeedsReading ==
    ( /\ CalledOnStored("UpdateBook")
      /\ call.arg.Rating # None
      /\ call.arg.Status = None
      /\ pre[call.id].Status = "not_started" )
    => ( /\ call.id \in DOMAIN books
         /\ books[call.id].Rating = pre[call.id].Rating
         /\ books[call.id].Status = "not_started" => books[call.id].Rating = None )

\* the last call was a successful mutation of a stored book: an UpdateBook
\* that carries a field, StartReading or FinishReading
Mutated ==
    /\ Succeeded
    /\ call.id \in DOMAIN pre
    /\ \/ call.op = "UpdateBook" /\ call.arg # EmptyUpdate
       \/ call.op \in {"StartReading", "FinishReading"}

\* C22 as stated: a mutation leaves updated-at equal to the time of the
\* mutation and created-at as it was; updated-at is never before created-at
\* and never decreases.
C22_UpdatedAtIsCallTime ==
    /\ Mutated =>
          /\ books[call.id].UpdatedAt = call.at
          /\ books[call.id].CreatedAt = pre[call.id].CreatedAt
    /\ \A id \in DOMAIN books : books[id].UpdatedAt >= books[id].CreatedAt
    /\ \A id \in DOMAIN books \cap DOMAIN pre : books[id].UpdatedAt >= pre[id].UpdatedAt

\* C22 amended: a mutation leaves updated-at equal to the start of the second
\* in which it is made and created-at as it was; updated-at is never before
\* created-at and never decreases.
C22_UpdatedAtIsCallSecond ==
    /\ Mutated =>
          /\ books[call.id].UpdatedAt = call.at - (call.at % TicksPerSec)
          /\ books[call.id].CreatedAt = pre[call.id].CreatedAt
    /\ \A id \in DOMAIN books : books[id].UpdatedAt >= books[id].CreatedAt
    /\ \A id \in DOMAIN books \cap DOMAIN pre : books[id].UpdatedAt >= pre[id].UpdatedAt

\* C22 witness: StartReading, seconds after the book was created, moved
\* updated-at forward, to a time before the start-read date it stamped.
C22_Witness ==
    /\ Mutated
    /\ call.op = "StartReading"
    /\ books[call.id].UpdatedAt > pre[call.id].UpdatedAt
    /\ books[call.id].StartReadDate = Some(call.at)
    /\ books[call.id].UpdatedAt < call.at

\* C23: every stored book's purchase date is not later than its created-at,
\* and no call on a stored book changes its purchase date.
C23_PurchasedBeforeCreated ==
    /\ \A id \in DOMAIN books : books[id].PurchaseDate <= books[id].CreatedAt
    /\ \A id \in DOMAIN books \cap DOMAIN pre : books[id].PurchaseDate = pre[id].PurchaseDate

\* C24: the books a ListBooks call returns are in descending order of
\* created-at, and the call can return no other sequence on the same table:
\* the order of books with equal created-at is fixed.
C24_StableOrder ==
    call.op = "ListBooks" =>
        LET got == call.ret[1].Books
        IN  /\ \A i, j \in DOMAIN got : i < j => got[i].CreatedAt >= got[j].CreatedAt
            /\ \A res \in UcListBooks(pre, call.arg.Filter, call.arg.Page, call.arg.Limit) :
                  res.Books = got

\* C25: where UpdateBook is never called, a call changes the status of a
\* stored book only from not_started to reading or from reading to completed;
\* StartReading and FinishReading on a completed book fail; every reading
\* book has a start-read date; every completed book has both read dates, the
\* start-read date not after the end-read date; and the statistics over one
\* book that was created, started and finished with rating 5 show one
\* completed book and an average rating of 5.
C25_LifecycleWithoutUpdate ==
    /\ \A id \in DOMAIN books \cap DOMAIN pre :
          \/ books[id].Status = pre[id].Status
          \/ pre[id].Status = "not_started" /\ books[id].Status = "reading"
          \/ pre[id].Status = "reading" /\ books[id].Status = "completed"
    /\ ( /\ call.op \in {"StartReading", "FinishReading"}
         /\ call.id \in DOMAIN pre
         /\ pre[call.id].Status = "completed" )
       => (~Succeeded /\ books = pre)
    /\ \A id \in DOMAIN books :
          /\ books[id].Status \in {"not_started", "reading", "completed"}
          /\ books[id].Status = "reading" => books[id].StartReadDate # None
          /\ books[id].Status = "completed" =>
                /\ books[id].StartReadDate # None
                /\ books[id].EndReadDate # None
                /\ books[id].StartReadDate[1] <= books[id].EndReadDate[1]
    /\ ( /\ call.op = "GetStatistics"
         /\ call.seq0 = 1
         /\ DOMAIN pre = {1}
         /\ pre[1].Status = "completed"
         /\ pre[1].Rating = Some(5) )
       => ( /\ call.ret[1].CompletedBooks = 1
            /\ call.ret[1].AverageRating = Some(<<5, 1>>) )

\* C25 witness: the statistics were taken over the one book ever created,
\* started at one time and finished with rating 5 at a later time.
C25_Witness ==
    /\ call.op = "GetStatistics"
    /\ call.seq0 = 1
    /\ DOMAIN pre = {1}
    /\ pre[1].Status = "completed"
    /\ pre[1].Rating = Some(5)
    /\ pre[1].StartReadDate[1] < pre[1].EndReadDate[1]
    /\ call.ret[1].CompletedBooks = 1

\* C26: a successful CreateBook assigns an id greater than every id assigned
\* before, whether or not the books with those ids are still stored; every
\* stored book is stored under its own id, and no call changes the id of a
\* stored book.
C26_IdsNeverReused ==
    /\ (call.op = "CreateBook" /\ Succeeded) =>
          /\ call.id > call.seq0
          /\ \A i \in DOMAIN pre : i < call.id
          /\ call.id \in DOMAIN books
          /\ seq = call.id
    /\ seq >= call.seq0
    /\ \A id \in DOMAIN books : books[id].ID = id /\ id <= seq
    /\ \A id \in DOMAIN books \cap DOMAIN pre : books[id].ID = pre[id].ID

\* C26 witness: after the only book, which had the highest id, was deleted,
\* CreateBook assigned the next id, not the deleted one.
C26_Witness ==
    /\ call.op = "CreateBook"
    /\ Succeeded
    /\ DOMAIN pre = {}
    /\ call.seq0 = 1
    /\ call.id = 2

\* C27: a start-read date, an end-read date or a rating that a stored book
\* has before a call is still present after it, as long as the book is stored.
C27_LifecycleDataStays ==
    \A id \in DOMAIN books \cap DOMAIN pre :
        \A f \in {"StartReadDate", "EndReadDate", "Rating"} :
            pre[id][f] # None => books[id][f] # None

\* C27 witness: an update set a finished, rated book back to not_started and
\* the book kept its end-read date and its rating.
C27_Witness ==
    /\ CalledOnStored("UpdateBook")
    /\ Succeeded
    /\ call.arg.Status = Some("not_started")
    /\ pre[call.id].Status = "completed"
    /\ books[call.id].Status = "not_started"
    /\ books[call.id].EndReadDate # None
    /\ books[call.id].Rating # None

\* C28: a call that returns an error leaves the table and the id sequence as
\* they were, and so does every GetBook, ListBooks and GetStatistics.
C28_ErrorsChangeNothing ==
    /\ (~Idle /\ ~Succeeded) => (books = pre /\ seq = call.seq0)
    /\ call.op \in {"GetBook", "ListBooks", "GetStatistics"} =>
          (books = pre /\ seq = call.seq0)

\* C28 witness: the table refused an update that carried an unknown status
\* and nothing else, and the stored book stayed as it was.
C28_Witness ==
    /\ CalledOnStored("UpdateBook")
    /\ call.arg = [EmptyUpdate EXCEPT !.Status = Some("paused")]
    /\ call.err = StoreError
    /\ books = pre
    /\ pre[call.id].Status = "reading"


\* the statistics a GET /statistics has computed and not delivered yet
Computed == {i \in DOMAIN tasks : tasks[i].op = "GetStatistics" /\ tasks[i].pc = "done"}

\* C29: whatever other requests do while a GET /statistics is handled, the
\* total_books it returns is the sum of the four counts by status it returns,
\* and the books its total_spent and average_rating are computed over are as
\* many as total_books.
C29_StatisticsOfOneState ==
    \A i \in Computed :
        LET stats == tasks[i].arg.Stats[1]
        IN  /\ stats.TotalBooks = stats.NotStartedBooks + stats.ReadingBooks
                                    + stats.CompletedBooks + stats.DroppedBooks
            /\ stats.TotalBooks = tasks[i].arg.Listed


\* the DELETE of a request handled now has removed the book
Deleted(id) ==
    \E d \in DOMAIN tasks :
        /\ tasks[d].op = "DeleteBook"
        /\ tasks[d].id = id
        /\ tasks[d].pc = "done"
        /\ tasks[d].err = NoError

\* C30: once the DELETE of a request has removed a book, no step of an
\* UpdateBook, StartReading or FinishReading handled at the same time on that
\* id stores the book again, also when the request found the book in its
\* existence check, and every such request that is answered from then on is
\* answered with an error.
C30_DeleteWins ==
    [][ \A j \in DOMAIN tasks :
            Deleted(tasks[j].id) =>
                /\ tasks[j].id \notin DOMAIN books'
                /\ (j \in DOMAIN tasks' /\ tasks[j].pc # "done" /\ tasks'[j].pc = "done")
                      => tasks'[j].err # NoError ]_vars

\* C30 witness: a request found the book in its existence check, the DELETE of
\* another request removed the book, and the request has been answered with
\* not found, the book being absent.
C30_Witness ==
    \E j \in DOMAIN tasks :
        /\ tasks[j].op \in {"UpdateBook", "StartReading", "FinishReading"}
        /\ tasks[j].book # None
        /\ tasks[j].pc = "done"
        /\ tasks[j].err = NotFound
        /\ Deleted(tasks[j].id)
        /\ tasks[j].id \notin DOMAIN books

====
